---- MODULE Spec2Model ----
(***************************************************************************)
(* The entry persistence and index synchronisation of the blog (app.py):   *)
(* the four tables Entry, BlogEntryTag, FTSEntry and Tag, the write path   *)
(* of the create and edit views (_create_or_edit, Entry.save,              *)
(* Entry.update_search_index, Entry.update_tags) and the read queries      *)
(* (Entry.public, Entry.drafts, Entry.search, blogs_by_tag, detail).       *)
(*                                                                         *)
(* Text is a sequence of one-character strings, so that the regular        *)
(* expression, lower(), strip(), split() and join() are computed.          *)
(* A table is the sequence of its rows; a row's primary key (id, docid)    *)
(* is its index: no view deletes a row, and a rolled back insert gives     *)
(* its rowid back.                                                         *)
(***************************************************************************)
EXTENDS Integers, Sequences, FiniteSets, TLC

VARIABLES
    entry,          \* table Entry: rows [title, slug, content, published]
    blogentrytag,   \* table BlogEntryTag: rows [entry_id, name]
    ftsentry,       \* table FTSEntry: rows [entry_id, content]
    tag,            \* table Tag: rows [tag, count]
    saved_tags,     \* per entry id, entry.tags of its latest committed save
    raised,         \* the exception entry.save() raised in the last POST
    flashed,        \* the message the last POST flashed
    status,         \* the last response: "render", "redirect", "404", "500"
    callers,        \* per concurrent caller, its request and its position
    lock,           \* the caller that holds SQLite's write lock, or 0
    start           \* the database before the concurrent callers' requests

vars == <<entry, blogentrytag, ftsentry, tag, saved_tags, raised, flashed, status,
          callers, lock, start>>

----------------------------------------------------------------------------
(* Bounds of the model. *)

\* The longest title of the specification of the slugs.
MaxTitleLen == 3

\* Entry rows the model lets the create view insert.
MaxEntries == 2

\* BlogEntryTag rows the model lets the saves insert; every committed save
\* inserts at least one, so this bounds the committed saves.
MaxTagRows == 3

----------------------------------------------------------------------------
(* Characters and the string functions of the source. *)

LowerCase == {"a", "b", "t", "u", "x", "y", "h", "e", "l", "o", "w", "r", "d"}
UpperCase == {"A", "T", "H", "W"}
Digit == {"1", "2", "3", "4"}
WhiteSpace == {" ", "\n"}

\* \w of the re module (no re.UNICODE flag): [a-zA-Z0-9_]
IsWord(c) == c \in LowerCase \cup UpperCase \cup Digit \cup {"_"}

\* the FTS "simple" tokenizer's token characters: ASCII letters and digits
IsAlnum(c) == c \in LowerCase \cup UpperCase \cup Digit

lower_char(c) ==
    CASE c = "A" -> "a"
      [] c = "T" -> "t"
      [] c = "H" -> "h"
      [] c = "W" -> "w"
      [] OTHER -> c

\* str.lower()
lower(s) == [i \in 1..Len(s) |-> lower_char(s[i])]

Range(s) == {s[i] : i \in 1..Len(s)}

RECURSIVE lstrip(_, _)
lstrip(s, chars) ==
    IF s # <<>> /\ Head(s) \in chars THEN lstrip(Tail(s), chars) ELSE s

RECURSIVE rstrip(_, _)
rstrip(s, chars) ==
    IF s # <<>> /\ s[Len(s)] \in chars
    THEN rstrip(SubSeq(s, 1, Len(s) - 1), chars)
    ELSE s

\* str.strip(chars)
strip(s, chars) == rstrip(lstrip(s, chars), chars)

\* re.sub('[^\w]+', '-', s): every maximal run of non-word characters
\* becomes one hyphen.
RECURSIVE re_sub(_)
re_sub(s) ==
    IF s = <<>> THEN <<>>
    ELSE IF IsWord(Head(s)) THEN <<Head(s)>> \o re_sub(Tail(s))
    ELSE <<"-">> \o re_sub(lstrip(Tail(s), {c \in Range(s) : ~IsWord(c)}))

\* slugify without lower().
slugify_no_lower(title) == strip(re_sub(title), {"-"})

\* slugify with '_' as the replacement of re.sub.
slugify_underscores(title) ==
    strip([i \in 1..Len(re_sub(lower(title))) |->
              IF re_sub(lower(title))[i] = "-" THEN "_"
              ELSE re_sub(lower(title))[i]], {"-"})

\* line 96: re.sub('[^\w]+', '-', self.title.lower()).strip('-')
slugify(title) == strip(re_sub(lower(title)), {"-"})

\* lines 102 and 144: re.sub('[^\w]+', '-', tag.lower()).strip('-')
tag_token(t) == strip(re_sub(lower(t)), {"-"})

\* The least index at which sep occurs in s, 0 if none.
find(s, sep) ==
    LET at == {i \in 1..(Len(s) - Len(sep) + 1) :
                  SubSeq(s, i, i + Len(sep) - 1) = sep}
    IN  IF at = {} THEN 0 ELSE CHOOSE i \in at : \A j \in at : i <= j

\* str.split(sep), sep not empty
RECURSIVE split(_, _)
split(s, sep) ==
    LET i == find(s, sep)
    IN  IF i = 0 THEN <<s>>
        ELSE <<SubSeq(s, 1, i - 1)>> \o split(SubSeq(s, i + Len(sep), Len(s)), sep)

\* sep.join(parts)
RECURSIVE join(_, _)
join(parts, sep) ==
    IF parts = <<>> THEN <<>>
    ELSE IF Len(parts) = 1 THEN parts[1]
    ELSE parts[1] \o sep \o join(Tail(parts), sep)

\* str.split(): the maximal runs of non-whitespace characters
RECURSIVE split_ws(_)
split_ws(s) ==
    LET t == lstrip(s, WhiteSpace)
        n == IF \E i \in 1..Len(t) : t[i] \in WhiteSpace
             THEN (CHOOSE i \in 1..Len(t) :
                      t[i] \in WhiteSpace /\ \A j \in 1..(i - 1) : t[j] \notin WhiteSpace) - 1
             ELSE Len(t)
    IN  IF t = <<>> THEN <<>>
        ELSE <<SubSeq(t, 1, n)>> \o split_ws(SubSeq(t, n + 1, Len(t)))

\* The terms the FTS "simple" tokenizer makes of a text: its maximal runs of
\* letters and digits, folded to lower case.
RECURSIVE tokens(_)
tokens(s) ==
    LET t == lstrip(s, {c \in Range(s) : ~IsAlnum(c)})
        n == IF \E i \in 1..Len(t) : ~IsAlnum(t[i])
             THEN (CHOOSE i \in 1..Len(t) :
                      ~IsAlnum(t[i]) /\ \A j \in 1..(i - 1) : IsAlnum(t[j])) - 1
             ELSE Len(t)
    IN  IF t = <<>> THEN {}
        ELSE {lower(SubSeq(t, 1, n))} \cup tokens(SubSeq(t, n + 1, Len(t)))

\* The decimal text of a row id (the ids of the model have one digit).
str_id(n) ==
    CASE n = 1 -> <<"1">>
      [] n = 2 -> <<"2">>
      [] n = 3 -> <<"3">>
      [] OTHER -> <<"4">>

----------------------------------------------------------------------------
(* The inputs of the model: the fields a POSTed form may carry. *)

Titles == { <<>>, <<"a">>, <<"A", "!">>, <<"b">>, <<"!">> }
Contents == { <<>>, <<"x">>, <<"y">> }
\* the 'published' checkbox: absent, or sent with some value
PublishedFields == { <<>>, <<"y">> }
TagFields == { <<>>, <<"t">>, <<"T">>, <<"t", ",", " ", "t">>, <<"t", ",", " ", "u">> }

\* The form the other forms of the model vary.
BaseForm == [title |-> <<"a">>, content |-> <<"x">>, published |-> <<"y">>,
             tags |-> <<"t">>]

\* The forms POSTed: BaseForm, every form that differs from it in one field,
\* and the drafts that differ from it in the tags too. A form always carries
\* the tags field, as the templates' form does.
Forms ==
    {[BaseForm EXCEPT !.title = t] : t \in Titles}
    \cup {[BaseForm EXCEPT !.content = c] : c \in Contents}
    \cup {[BaseForm EXCEPT !.published = p] : p \in PublishedFields}
    \cup {[BaseForm EXCEPT !.tags = f] : f \in TagFields}
    \cup {[BaseForm EXCEPT !.published = <<>>, !.tags = f] : f \in TagFields}

\* The slugs a request path /<slug>/ may carry: the route's converter
\* matches one or more characters, so never the empty text.
RouteSlugs == { <<"a">>, <<"b">>, <<"u">> }

Queries == { <<>>, <<" ">>, <<" ", "\n", " ">>, <<"x">>, <<"y">>, <<"a">>, <<"b">>, <<"t">>, <<"u">>,
             <<"1">>, <<"x", " ", "a">> }

----------------------------------------------------------------------------
(* The database. *)

NoError == "none"
SlugError == "IntegrityError: UNIQUE constraint failed: entry.slug"
TagError == "IntegrityError: UNIQUE constraint failed: tag.tag"

DB == [entry |-> entry, blogentrytag |-> blogentrytag,
       ftsentry |-> ftsentry, tag |-> tag]

\* Entry(title='', content='', tags=''), line 294: id and slug are None
new_entry == [id |-> 0, title |-> <<>>, slug |-> <<>>, content |-> <<>>,
              published |-> FALSE, tags |-> <<>>]

\* The Entry object of row i, as a SELECT builds it.
load_entry(db, i) ==
    [id |-> i, title |-> db.entry[i].title, slug |-> db.entry[i].slug,
     content |-> db.entry[i].content, published |-> db.entry[i].published,
     tags |-> <<>>]

entry_row(e) ==
    [title |-> e.title, slug |-> e.slug, content |-> e.content,
     published |-> e.published]

\* slug_taken without the unique index.
slug_taken_never(db, e) == FALSE

\* slug_taken with the unique index on title instead of slug.
slug_taken_by_title(db, e) ==
    \E i \in 1..Len(db.entry) : i # e.id /\ db.entry[i].title = e.title

\* slug = CharField(unique=True): the row written would share its slug with
\* another row.
slug_taken(db, e) ==
    \E i \in 1..Len(db.entry) : i # e.id /\ db.entry[i].slug = e.slug

\* super(Entry, self).save(): INSERT when the object has no id, UPDATE of
\* its row otherwise.
Model_save(db, e) ==
    IF slug_taken(db, e) THEN [db |-> db, e |-> e, exc |-> SlugError]
    ELSE IF e.id = 0
    THEN [db |-> [db EXCEPT !.entry = Append(@, entry_row(e))],
          e |-> [e EXCEPT !.id = Len(db.entry) + 1], exc |-> NoError]
    ELSE [db |-> [db EXCEPT !.entry[e.id] = entry_row(e)], e |-> e,
          exc |-> NoError]

\* for tag in self.tags: BlogEntryTag.create(entry_id=self.id, name=<token>)
create_entry_tags(db, e) ==
    [db EXCEPT !.blogentrytag =
        @ \o [i \in 1..Len(e.tags) |->
                 [entry_id |-> e.id, name |-> tag_token(e.tags[i])]]]

\* '\n'.join((self.title, self.content, ','.join(self.tags)))
fts_content(e) ==
    join(<<e.title, e.content, join(e.tags, <<",">>)>>, <<"\n">>)

\* update_search_index with force_insert always True.
update_search_index_insert(db, e) ==
    [db EXCEPT !.ftsentry =
        Append(@, [entry_id |-> e.id, content |-> fts_content(e)])]

\* update_search_index appending to the stored content.
update_search_index_append(db, e) ==
    LET hits == {d \in 1..Len(db.ftsentry) : db.ftsentry[d].entry_id = e.id}
    IN  IF hits = {}
        THEN [db EXCEPT !.ftsentry =
                 Append(@, [entry_id |-> e.id, content |-> fts_content(e)])]
        ELSE LET d == CHOOSE x \in hits : \A y \in hits : x <= y
             IN  [db EXCEPT !.ftsentry[d].content = @ \o <<"\n">> \o fts_content(e)]

\* Lines 112-128: insert the entry's document when it has none, else
\* replace the content of the one query.get() returns.
update_search_index(db, e) ==
    LET hits == {d \in 1..Len(db.ftsentry) : db.ftsentry[d].entry_id = e.id}
    IN  IF hits = {}
        THEN [db EXCEPT !.ftsentry =
                 Append(@, [entry_id |-> e.id, content |-> fts_content(e)])]
        ELSE LET d == CHOOSE x \in hits : \A y \in hits : x <= y
             IN  [db EXCEPT !.ftsentry[d].content = fts_content(e)]

\* Tag.update(count=Tag.count+1).where(Tag.tag << self.tags)
bump_counts(tagtable, tags) ==
    [i \in 1..Len(tagtable) |->
        IF tagtable[i].tag \in Range(tags)
        THEN [tagtable[i] EXCEPT !.count = @ + 1]
        ELSE tagtable[i]]

\* [x.tag for x in Tag.select(Tag.tag).where(Tag.tag << self.tags)]
existing_tags(tagtable, tags) ==
    {tagtable[i].tag : i \in {j \in 1..Len(tagtable) : tagtable[j].tag \in Range(tags)}}

\* The loop of lines 143-148; Tag.create raises on tag = CharField(unique=True).
RECURSIVE create_missing(_, _, _)
create_missing(tagtable, tags, existing) ==
    IF tags = <<>> THEN [tag |-> tagtable, exc |-> NoError]
    ELSE LET t == tag_token(Head(tags))
         IN  IF t \in existing THEN create_missing(tagtable, Tail(tags), existing)
             ELSE IF \E i \in 1..Len(tagtable) : tagtable[i].tag = t
             THEN [tag |-> tagtable, exc |-> TagError]
             ELSE create_missing(Append(tagtable, [tag |-> t, count |-> 1]),
                                 Tail(tags), existing)

update_tags(db, e) ==
    LET bumped == bump_counts(db.tag, e.tags)
        r == create_missing(bumped, e.tags, existing_tags(bumped, e.tags))
    IN  [db |-> [db EXCEPT !.tag = r.tag], exc |-> r.exc]

\* save deriving the slug from the title on every call.
save_always_slugs(db, e) ==
    LET e1 == [e EXCEPT !.slug = slugify(e.title)]
        r1 == Model_save(db, e1)
    IN  IF r1.exc # NoError THEN r1
        ELSE LET db3 == update_search_index(create_entry_tags(r1.db, r1.e), r1.e)
                 r4 == update_tags(db3, r1.e)
             IN  [db |-> r4.db, e |-> r1.e, exc |-> r4.exc]

\* save leaving the search index to a later step.
save_without_index(db, e) ==
    LET e1 == IF e.slug = <<>> THEN [e EXCEPT !.slug = slugify(e.title)] ELSE e
        r1 == Model_save(db, e1)
    IN  IF r1.exc # NoError THEN r1
        ELSE LET r4 == update_tags(create_entry_tags(r1.db, r1.e), r1.e)
             IN  [db |-> r4.db, e |-> r1.e, exc |-> r4.exc]

\* Entry.save: the database and the object as the call leaves them, and the
\* exception it raised.
save(db, e) ==
    LET e1 == IF e.slug = <<>> THEN [e EXCEPT !.slug = slugify(e.title)] ELSE e
        r1 == Model_save(db, e1)
    IN  IF r1.exc # NoError THEN r1
        ELSE LET db3 == update_search_index(create_entry_tags(r1.db, r1.e), r1.e)
                 r4 == update_tags(db3, r1.e)
             IN  [db |-> r4.db, e |-> r1.e, exc |-> r4.exc]

\* atomic without the rollback.
atomic_keeps_writes(db, r) == r

\* with database.atomic(): the block's writes are rolled back when it raises.
atomic(db, r) ==
    IF r.exc # NoError THEN [r EXCEPT !.db = db] ELSE r

FlashRequired == "Title and Content are required."
FlashInUse == "Error: this title is already in use."
FlashSaved == "Entry saved successfully."

\* _create_or_edit without the test of title and content.
_create_or_edit_unchecked(db, e, form) ==
    LET e1 == [e EXCEPT !.title = form.title, !.content = form.content,
                        !.published = (form.published # <<>>),
                        !.tags = split(strip(form.tags, WhiteSpace), <<",", " ">>)]
        r == atomic(db, save(db, e1))
    IN  IF r.exc # NoError
        THEN [db |-> r.db, e |-> r.e, exc |-> r.exc, flash |-> FlashInUse,
              status |-> "render"]
        ELSE [db |-> r.db, e |-> r.e, exc |-> NoError, flash |-> FlashSaved,
              status |-> "redirect"]

\* The POST branch of _create_or_edit.
_create_or_edit(db, e, form) ==
    LET e1 == [e EXCEPT !.title = form.title, !.content = form.content,
                        !.published = (form.published # <<>>),
                        !.tags = split(strip(form.tags, WhiteSpace), <<",", " ">>)]
    IN  IF e1.title = <<>> \/ e1.content = <<>>
        THEN [db |-> db, e |-> e1, exc |-> NoError, flash |-> FlashRequired,
              status |-> "render"]
        ELSE LET r == atomic(db, save(db, e1))
             IN  IF r.exc # NoError
                 THEN [db |-> r.db, e |-> r.e, exc |-> r.exc, flash |-> FlashInUse,
                       status |-> "render"]
                 ELSE [db |-> r.db, e |-> r.e, exc |-> NoError, flash |-> FlashSaved,
                       status |-> "redirect"]

\* get_object_or_404(query, Entry.slug == slug): the ids found
by_slug(db, slug) == {i \in 1..Len(db.entry) : db.entry[i].slug = slug}

----------------------------------------------------------------------------
(* The views that write. *)

\* The requests served at the same time, each on its own connection.
Callers == {1, 2}

EmptyDB == [entry |-> <<>>, blogentrytag |-> <<>>, ftsentry |-> <<>>, tag |-> <<>>]

\* A caller with no request.
Idle == [pc |-> "idle", kind |-> "none", slug |-> <<>>, form |-> BaseForm,
         e |-> new_entry,
         work |-> [db |-> EmptyDB, e |-> new_entry, exc |-> NoError],
         overlapped |-> FALSE, exc |-> NoError, flash |-> "", status |-> "none"]

Init ==
    /\ entry = <<>>
    /\ blogentrytag = <<>>
    /\ ftsentry = <<>>
    /\ tag = <<>>
    /\ saved_tags = <<>>
    /\ raised = NoError
    /\ flashed = ""
    /\ status = "none"
    /\ callers = [c \in Callers |-> Idle]
    /\ lock = 0
    /\ start = EmptyDB

WithinBounds(db) ==
    /\ Len(db.entry) <= MaxEntries
    /\ Len(db.blogentrytag) <= MaxTagRows

\* The state after a POST answered with r.
Respond(r) ==
    /\ WithinBounds(r.db)
    /\ entry' = r.db.entry
    /\ blogentrytag' = r.db.blogentrytag
    /\ ftsentry' = r.db.ftsentry
    /\ tag' = r.db.tag
    /\ saved_tags' = IF r.status # "redirect" THEN saved_tags
                     ELSE IF r.e.id > Len(saved_tags) THEN Append(saved_tags, r.e.tags)
                     ELSE [saved_tags EXCEPT ![r.e.id] = r.e.tags]
    /\ raised' = r.exc
    /\ flashed' = r.flash
    /\ status' = r.status
    /\ UNCHANGED <<callers, lock, start>>

\* POST /create/
create ==
    \E form \in Forms : Respond(_create_or_edit(DB, new_entry, form))

\* POST /<slug>/edit/
edit ==
    \E slug \in RouteSlugs :
        IF by_slug(DB, slug) = {}
        THEN /\ status' = "404"
             /\ raised' = NoError
             /\ flashed' = ""
             /\ UNCHANGED <<entry, blogentrytag, ftsentry, tag, saved_tags>>
             /\ UNCHANGED <<callers, lock, start>>
        ELSE \E form \in Forms :
                LET i == CHOOSE x \in by_slug(DB, slug) : TRUE
                IN  Respond(_create_or_edit(DB, load_entry(DB, i), form))

Next == create \/ edit

Spec == Init /\ [][Next]_vars

----------------------------------------------------------------------------
(* The specification of two requests served at the same time. Each caller  *)
(* has its own connection (FlaskDB opens one per request). Its SELECT of   *)
(* the entry runs before the transaction and reads the committed rows. The *)
(* first statement inside database.atomic() is a write, which takes        *)
(* SQLite's write lock: one connection holds it at a time, its writes are  *)
(* private to it until COMMIT, and the lock goes with COMMIT or ROLLBACK.  *)
(* A connection that cannot get the lock within the busy timeout raises    *)
(* OperationalError, which _create_or_edit does not catch.                 *)

OperationalError == "OperationalError"

ConcForms ==
    { BaseForm,
      [title |-> <<"b">>, content |-> <<"y">>, published |-> <<"y">>,
       tags |-> <<"t", ",", " ", "u">>],
      [title |-> <<"a">>, content |-> <<"y">>, published |-> <<>>,
       tags |-> <<"u">>],
      [title |-> <<"b">>, content |-> <<"x">>, published |-> <<"y">>,
       tags |-> <<"T">>],
      [BaseForm EXCEPT !.content = <<>>] }

ConcSlugs == { <<"a">>, <<"b">> }

\* The forms created, one after the other, before the callers arrive.
StartForms ==
    { <<>>, <<BaseForm>>,
      <<BaseForm, [title |-> <<"b">>, content |-> <<"y">>, published |-> <<"y">>,
                   tags |-> <<"t", ",", " ", "u">>]>> }

RECURSIVE serial_creates(_, _)
serial_creates(db, forms) ==
    IF forms = <<>> THEN db
    ELSE serial_creates(_create_or_edit(db, new_entry, Head(forms)).db, Tail(forms))

ConcInit ==
    \E forms \in StartForms :
        LET db == serial_creates(EmptyDB, forms)
        IN  /\ entry = db.entry
            /\ blogentrytag = db.blogentrytag
            /\ ftsentry = db.ftsentry
            /\ tag = db.tag
            /\ saved_tags = [i \in 1..Len(forms) |->
                                split(strip(forms[i].tags, WhiteSpace), <<",", " ">>)]
            /\ raised = NoError
            /\ flashed = IF forms = <<>> THEN "" ELSE FlashSaved
            /\ status = IF forms = <<>> THEN "none" ELSE "redirect"
            /\ callers = [c \in Callers |-> Idle]
            /\ lock = 0
            /\ start = db

\* The response of caller c.
Answer(c, exc, flash, st) ==
    /\ raised' = exc
    /\ flashed' = flash
    /\ status' = st

\* lock_free with no lock in the database.
lock_never_held(l) == TRUE

\* No other connection holds the write lock.
lock_free(l) == l = 0

\* The entry of the form, as lines 265-270 set it.
from_form(e, form) ==
    [e EXCEPT !.title = form.title, !.content = form.content,
              !.published = (form.published # <<>>),
              !.tags = split(strip(form.tags, WhiteSpace), <<",", " ">>)]

\* POST /create/ arrives: the object is Entry(title='', content='', tags='')
receive_create(c) ==
    /\ callers[c].pc = "idle"
    /\ \E form \in ConcForms :
          callers' = [callers EXCEPT ![c] =
                         [@ EXCEPT !.pc = "loaded", !.kind = "create",
                                   !.form = form, !.e = new_entry]]
    /\ UNCHANGED <<entry, blogentrytag, ftsentry, tag, saved_tags, raised,
                   flashed, status, lock, start>>

\* POST /<slug>/edit/ arrives: get_object_or_404 reads the committed rows
receive_edit(c) ==
    /\ callers[c].pc = "idle"
    /\ \E slug \in ConcSlugs, form \in ConcForms :
          IF by_slug(DB, slug) = {}
          THEN /\ callers' = [callers EXCEPT ![c] =
                                 [@ EXCEPT !.pc = "done", !.kind = "edit",
                                           !.slug = slug, !.form = form,
                                           !.status = "404"]]
               /\ Answer(c, NoError, "", "404")
          ELSE /\ callers' = [callers EXCEPT ![c] =
                                 [@ EXCEPT !.pc = "loaded", !.kind = "edit",
                                           !.slug = slug, !.form = form,
                                           !.e = load_entry(DB,
                                                    CHOOSE x \in by_slug(DB, slug) : TRUE)]]
               /\ UNCHANGED <<raised, flashed, status>>
    /\ UNCHANGED <<entry, blogentrytag, ftsentry, tag, saved_tags, lock, start>>

\* Lines 271-273: a form without title or content is answered at once.
refuse(c) ==
    LET e1 == from_form(callers[c].e, callers[c].form)
    IN  /\ callers[c].pc = "loaded"
        /\ e1.title = <<>> \/ e1.content = <<>>
        /\ callers' = [callers EXCEPT ![c] =
                          [@ EXCEPT !.pc = "done", !.e = e1,
                                    !.flash = FlashRequired, !.status = "render"]]
        /\ Answer(c, NoError, FlashRequired, "render")
        /\ UNCHANGED <<entry, blogentrytag, ftsentry, tag, saved_tags, lock, start>>

\* Lines 276-277 and 95-98: the transaction begins and Entry.save writes the
\* Entry row, the first statement; it waits for the write lock.
begin(c) ==
    LET e1 == from_form(callers[c].e, callers[c].form)
        e2 == IF e1.slug = <<>> THEN [e1 EXCEPT !.slug = slugify(e1.title)] ELSE e1
    IN  /\ callers[c].pc = "loaded"
        /\ ~(e1.title = <<>> \/ e1.content = <<>>)
        /\ lock_free(lock)
        /\ lock' = c
        /\ callers' = [callers EXCEPT ![c] =
                          [@ EXCEPT !.pc = "saved", !.e = e2,
                                    !.work = Model_save(DB, e2)]]
        /\ UNCHANGED <<entry, blogentrytag, ftsentry, tag, saved_tags, raised,
                       flashed, status, start>>

\* Lines 101-109: the BlogEntryTag rows, the search index and the tags,
\* written inside the transaction.
write_derived(c) ==
    LET w == callers[c].work
        db3 == update_search_index(create_entry_tags(w.db, w.e), w.e)
        r4 == update_tags(db3, w.e)
    IN  /\ callers[c].pc = "saved"
        /\ w.exc = NoError
        /\ callers' = [callers EXCEPT ![c] =
                          [@ EXCEPT !.pc = "written",
                                    !.work = [db |-> r4.db, e |-> w.e, exc |-> r4.exc]]]
        /\ UNCHANGED <<entry, blogentrytag, ftsentry, tag, saved_tags, raised,
                       flashed, status, lock, start>>

\* The with block ends without exception: COMMIT, then lines 282-286.
commit(c) ==
    LET w == callers[c].work
    IN  /\ callers[c].pc = "written"
        /\ w.exc = NoError
        /\ entry' = w.db.entry
        /\ blogentrytag' = w.db.blogentrytag
        /\ ftsentry' = w.db.ftsentry
        /\ tag' = w.db.tag
        /\ saved_tags' = IF w.e.id > Len(saved_tags) THEN Append(saved_tags, w.e.tags)
                         ELSE [saved_tags EXCEPT ![w.e.id] = w.e.tags]
        /\ lock' = IF lock = c THEN 0 ELSE lock
        /\ callers' = [d \in Callers |->
                          IF d = c
                          THEN [callers[d] EXCEPT !.pc = "done", !.e = w.e,
                                                  !.flash = FlashSaved,
                                                  !.status = "redirect"]
                          ELSE IF callers[d].pc = "loaded"
                          THEN [callers[d] EXCEPT !.overlapped = TRUE]
                          ELSE callers[d]]
        /\ Answer(c, NoError, FlashSaved, "redirect")
        /\ UNCHANGED start

\* The with block ends with IntegrityError: ROLLBACK, then lines 279-280.
rollback(c) ==
    LET w == callers[c].work
    IN  /\ callers[c].pc \in {"saved", "written"}
        /\ w.exc # NoError
        /\ lock' = IF lock = c THEN 0 ELSE lock
        /\ callers' = [callers EXCEPT ![c] =
                          [@ EXCEPT !.pc = "done", !.exc = w.exc,
                                    !.flash = FlashInUse, !.status = "render"]]
        /\ Answer(c, w.exc, FlashInUse, "render")
        /\ UNCHANGED <<entry, blogentrytag, ftsentry, tag, saved_tags, start>>

\* The write lock stays with another connection for the whole busy timeout:
\* the first statement raises OperationalError and the request fails.
timeout(c) ==
    LET e1 == from_form(callers[c].e, callers[c].form)
    IN  /\ callers[c].pc = "loaded"
        /\ ~(e1.title = <<>> \/ e1.content = <<>>)
        /\ lock \notin {0, c}
        /\ callers' = [callers EXCEPT ![c] =
                          [@ EXCEPT !.pc = "done", !.exc = OperationalError,
                                    !.status = "500"]]
        /\ Answer(c, OperationalError, "", "500")
        /\ UNCHANGED <<entry, blogentrytag, ftsentry, tag, saved_tags, lock, start>>

ConcNext ==
    \E c \in Callers :
        \/ receive_create(c)
        \/ receive_edit(c)
        \/ refuse(c)
        \/ begin(c)
        \/ write_derived(c)
        \/ commit(c)
        \/ rollback(c)
        \/ timeout(c)

ConcSpec == ConcInit /\ [][ConcNext]_vars

----------------------------------------------------------------------------
(* The specification of the slugs: the first save of an entry, into the    *)
(* empty database, under every title of at most MaxTitleLen characters and *)
(* under the title "Hello, World!".                                        *)

TitleChars == {"a", "A", "1", "_", "-", "!"}

HelloWorld == <<"H", "e", "l", "l", "o", ",", " ", "W", "o", "r", "l", "d", "!">>

SlugTitles ==
    UNION {[1..n -> TitleChars] : n \in 0..MaxTitleLen} \cup {HelloWorld}

\* POST /create/ of a form with the title t, into the empty database
create_titled ==
    /\ Len(entry) = 0
    /\ \E t \in SlugTitles :
          Respond(_create_or_edit(DB, new_entry, [BaseForm EXCEPT !.title = t]))

SlugNext == create_titled

SlugSpec == Init /\ [][SlugNext]_vars

----------------------------------------------------------------------------
(* The queries. A result is the set of the ids of its Entry rows: the      *)
(* order of a listing is left out.                                         *)

\* Entry.public()
public(db) == {i \in 1..Len(db.entry) : db.entry[i].published}

\* Entry.drafts()
drafts(db) == {i \in 1..Len(db.entry) : ~db.entry[i].published}

\* FTSEntry.match(search): every term of the query occurs in a column of the
\* row (entry_id, content; tags is never written). The queries of the model
\* hold no operator of the FTS query syntax.
fts_match(row, q) ==
    /\ tokens(q) # {}
    /\ tokens(q) \subseteq tokens(row.content) \cup tokens(str_id(row.entry_id))

\* search without the Entry.published == True term.
search_unfiltered(db, query) ==
    LET words == split_ws(query)
    IN  IF words = <<>> THEN {}
        ELSE {db.ftsentry[d].entry_id :
                d \in {x \in 1..Len(db.ftsentry) :
                        /\ db.ftsentry[x].entry_id \in 1..Len(db.entry)
                        /\ fts_match(db.ftsentry[x], join(words, <<" ">>))}}

\* search without the test for a query that has no word: the match of the
\* empty expression is left out and every published entry is returned.
search_blank_all(db, query) ==
    LET words == split_ws(query)
    IN  {db.ftsentry[d].entry_id :
            d \in {x \in 1..Len(db.ftsentry) :
                    /\ db.ftsentry[x].entry_id \in 1..Len(db.entry)
                    /\ db.entry[db.ftsentry[x].entry_id].published
                    /\ (words = <<>> \/ fts_match(db.ftsentry[x], join(words, <<" ">>)))}}

\* Entry.search(query)
search(db, query) ==
    LET words == split_ws(query)
    IN  IF words = <<>> THEN {}
        ELSE {db.ftsentry[d].entry_id :
                d \in {x \in 1..Len(db.ftsentry) :
                        /\ db.ftsentry[x].entry_id \in 1..Len(db.entry)
                        /\ db.entry[db.ftsentry[x].entry_id].published
                        /\ fts_match(db.ftsentry[x], join(words, <<" ">>))}}

\* GET /tags/<tag_name>/
blogs_by_tag(db, tag_name) ==
    LET blog_entry_list ==
            {db.blogentrytag[k].entry_id :
                k \in {x \in 1..Len(db.blogentrytag) :
                        db.blogentrytag[x].name = tag_name}}
    IN  {i \in 1..Len(db.entry) : i \in blog_entry_list}

\* GET /<slug>/
detail(db, slug, logged_in) ==
    {i \in (IF logged_in THEN 1..Len(db.entry) ELSE public(db)) :
        db.entry[i].slug = slug}

\* The tag names a request path /tags/<tag_name>/ may carry.
RouteTags == { <<"t">>, <<"T">>, <<"u">> }

----------------------------------------------------------------------------
(* Vocabulary of the properties. *)

Ids == 1..Len(entry)

\* The Entry objects a POST may be about: a new one, or a stored one.
Objects == {new_entry} \cup {load_entry(DB, i) : i \in Ids}

\* The normalized tokens of the tag list of entry i's latest committed save.
TokensOf(i) == {tag_token(saved_tags[i][k]) : k \in 1..Len(saved_tags[i])}

\* The count the Tag table stores for token t, 0 when it has no row for t.
RECURSIVE SumCounts(_, _)
SumCounts(rows, t) ==
    IF rows = <<>> THEN 0
    ELSE (IF Head(rows).tag = t THEN Head(rows).count ELSE 0)
         + SumCounts(Tail(rows), t)

StoredCount(t) == SumCounts(tag, t)

AllTokens == UNION {TokensOf(i) : i \in Ids} \cup {tag[k].tag : k \in 1..Len(tag)}

\* The number of places at which the text part occurs in the text s.
Occurrences(part, s) ==
    Cardinality({i \in 1..(Len(s) - Len(part) + 1) :
                    SubSeq(s, i, i + Len(part) - 1) = part})

\* The documents the search index holds for entry i.
DocsOf(i) == {d \in 1..Len(ftsentry) : ftsentry[d].entry_id = i}

\* The BlogEntryTag rows of entry i.
TagRowsOf(i) == {k \in 1..Len(blogentrytag) : blogentrytag[k].entry_id = i}

----------------------------------------------------------------------------
(* C1: after any sequence of saves and edits, the count the Tag table      *)
(* stores for every token equals the number of entries whose current tag   *)
(* list normalizes to contain that token, and no count is negative.        *)
(* Entry.update_tags adds 1 on every save, so a second save of an entry    *)
(* with its tag list unchanged leaves the count one too high.              *)
C1_TagCountIsUsage ==
    \A t \in AllTokens :
        /\ StoredCount(t) = Cardinality({i \in Ids : t \in TokensOf(i)})
        /\ StoredCount(t) >= 0

----------------------------------------------------------------------------
(* C2: in every reachable state, the create view POSTed a form with title  *)
(* and content whose title normalizes to the slug of a stored entry raises *)
(* the uniqueness error on entry.slug, flashes that the title is in use,   *)
(* and leaves the four tables as they were; the stored entry is still      *)
(* what the detail view finds under that slug.                             *)
C2_DuplicateSlugRejected ==
    \A form \in Forms :
        LET slug == slugify(form.title)
            r == _create_or_edit(DB, new_entry, form)
        IN  (form.title # <<>> /\ form.content # <<>> /\ by_slug(DB, slug) # {})
            => /\ r.exc = SlugError
               /\ r.flash = FlashInUse
               /\ r.db = DB
               /\ detail(r.db, slug, TRUE) = by_slug(DB, slug)
               /\ \A i \in by_slug(DB, slug) : r.db.entry[i] = entry[i]

\* A create was refused for its slug while an entry is stored.
C2_Witness ==
    /\ raised = SlugError
    /\ flashed = FlashInUse
    /\ Len(entry) >= 1

----------------------------------------------------------------------------
(* C3: a save is all or nothing. In every reachable state, a POST of any   *)
(* form about any entry (new or stored) whose save raises leaves the four  *)
(* tables equal to what they were before the call, also when the save had  *)
(* written the Entry row, BlogEntryTag rows, the document and counts       *)
(* before it raised; and in every reachable state each document and each   *)
(* BlogEntryTag row belongs to a stored entry, the document beginning with *)
(* that entry's stored title and content.                                  *)
C3_SaveAllOrNothing ==
    /\ \A form \in Forms, e \in Objects :
          LET r == _create_or_edit(DB, e, form)
          IN  r.exc # NoError => r.db = DB
    /\ \A d \in 1..Len(ftsentry) :
          /\ ftsentry[d].entry_id \in Ids
          /\ LET row == entry[ftsentry[d].entry_id]
                 head == row.title \o <<"\n">> \o row.content \o <<"\n">>
             IN  /\ Len(ftsentry[d].content) >= Len(head)
                 /\ SubSeq(ftsentry[d].content, 1, Len(head)) = head
    /\ \A k \in 1..Len(blogentrytag) : blogentrytag[k].entry_id \in Ids

\* A save has raised in Tag.create, after its other writes, with entries stored.
C3_Witness ==
    /\ raised = TagError
    /\ Len(entry) >= 1
    /\ Len(tag) >= 1

----------------------------------------------------------------------------
(* C4: in every reachable state every stored entry has exactly one         *)
(* document in the search index, and every document's entry_id is the id   *)
(* of a stored entry: a later save of an entry replaces its document.      *)
C4_OneDocumentPerEntry ==
    /\ \A i \in Ids : Cardinality(DocsOf(i)) = 1
    /\ \A d \in 1..Len(ftsentry) : ftsentry[d].entry_id \in Ids

\* An entry has been saved more than once: it has more BlogEntryTag rows
\* than its latest save inserted.
C4_Witness ==
    \E i \in Ids : Cardinality(TagRowsOf(i)) > Len(saved_tags[i])

----------------------------------------------------------------------------
(* C5, as claimed: the document of every saved entry contains the entry's  *)
(* title, its content, and the normalized token of every tag of the saved  *)
(* tag list exactly once.                                                  *)
C5_DocHasEachTokenOnce ==
    \A i \in Ids : \A d \in DocsOf(i) :
        /\ Occurrences(entry[i].title, ftsentry[d].content) >= 1
        /\ Occurrences(entry[i].content, ftsentry[d].content) >= 1
        /\ \A t \in TokensOf(i) \ {<<>>} :
              Occurrences(t, ftsentry[d].content) = 1

(* C5, amended: the document of every saved entry is exactly the entry's   *)
(* title, a newline, its content, a newline, and the tag strings of the    *)
(* saved tag list as they were submitted, joined by commas; so it holds    *)
(* nothing of an earlier save.                                             *)
RECURSIVE CommaJoined(_)
CommaJoined(list) ==
    IF list = <<>> THEN <<>>
    ELSE IF Len(list) = 1 THEN Head(list)
    ELSE Head(list) \o <<",">> \o CommaJoined(Tail(list))

C5_DocIsTitleContentTags ==
    \A i \in Ids : \A d \in DocsOf(i) :
        ftsentry[d].content =
            entry[i].title \o <<"\n">> \o entry[i].content \o <<"\n">>
                \o CommaJoined(saved_tags[i])

\* An entry's later save changed its tags: a BlogEntryTag row of it names a
\* token its latest tag list does not have.
C5_Witness ==
    \E i \in Ids : \E k \in TagRowsOf(i) : blogentrytag[k].name \notin TokensOf(i)

----------------------------------------------------------------------------
(* C6: in every reachable state an entry stored with published false is in *)
(* the result of search(q) for no query q, also when its document matches  *)
(* q, and is in the result of drafts().                                    *)
C6_SearchExcludesDrafts ==
    \A i \in Ids :
        ~entry[i].published
            => /\ \A q \in Queries : i \notin search(DB, q)
               /\ i \in drafts(DB)

\* An unpublished entry is stored whose document matches a query.
C6_Witness ==
    \E i \in Ids, q \in Queries :
        /\ ~entry[i].published
        /\ \E d \in DocsOf(i) : fts_match(ftsentry[d], q)

----------------------------------------------------------------------------
(* C7: the listing of a tag holds only entries with published true.        *)
(* blogs_by_tag selects by Entry.id alone, so it lists drafts too.         *)
C7_TagListingOnlyPublished ==
    \A t \in RouteTags : \A i \in blogs_by_tag(DB, t) : entry[i].published

----------------------------------------------------------------------------
(* C8: a save whose title gives the empty slug is rejected, so that no     *)
(* Entry row with an empty slug is ever stored. Entry.save stores it.      *)
C8_NoEmptySlugStored ==
    \A i \in Ids : entry[i].slug # <<>>

----------------------------------------------------------------------------
(* C9: in every reachable state no two distinct stored entries have the    *)
(* same slug.                                                              *)
C9_SlugsDistinct ==
    \A i \in Ids, j \in Ids : i # j => entry[i].slug # entry[j].slug

\* Two entries are stored and the last create was refused for its slug.
C9_Witness ==
    /\ Len(entry) >= 2
    /\ raised = SlugError

----------------------------------------------------------------------------
(* C10: no step changes the slug of a stored entry or removes the entry:   *)
(* a later save that edits its title, content, published flag or tags      *)
(* leaves the slug of its first save.                                      *)
C10_SlugNeverChanges ==
    [][/\ Len(entry') >= Len(entry)
       /\ \A i \in Ids : entry'[i].slug = entry[i].slug]_vars

\* An entry first saved under the title "a" now has a title that gives
\* another slug.
C10_Witness ==
    \E i \in Ids :
        /\ entry[i].slug = <<"a">>
        /\ slugify(entry[i].title) # <<"a">>

----------------------------------------------------------------------------
(* C11: in every reachable state, whatever entries are stored, the search  *)
(* of a query that is empty or holds only whitespace returns no entry.     *)
BlankQueries == {q \in Queries : Range(q) \subseteq WhiteSpace}

C11_BlankQueryFindsNothing ==
    \A q \in BlankQueries : search(DB, q) = {}

\* A published entry is stored, so that "all entries" would not be empty.
C11_Witness ==
    /\ Cardinality(BlankQueries) >= 2
    /\ \E i \in Ids : entry[i].published /\ DocsOf(i) # {}

----------------------------------------------------------------------------
(* C12: in every reachable state, a POST about any entry (new or stored)   *)
(* of a form whose title or content is empty flashes that both are         *)
(* required, raises nothing, and leaves the four tables as they were.      *)
C12_EmptyFieldWritesNothing ==
    \A form \in Forms, e \in Objects :
        (form.title = <<>> \/ form.content = <<>>)
            => LET r == _create_or_edit(DB, e, form)
               IN  /\ r.db = DB
                   /\ r.flash = FlashRequired
                   /\ r.exc = NoError
                   /\ r.status = "render"

\* A form was refused for an empty field while entries are stored.
C12_Witness ==
    /\ flashed = FlashRequired
    /\ status = "render"
    /\ Len(entry) >= 1
    /\ Len(tag) >= 1

----------------------------------------------------------------------------
(* C13: the indexes are updated within the save. In every reachable state, *)
(* in the database a POST about any entry leaves when its save of a        *)
(* published entry succeeds, the search of every term of the saved title   *)
(* or content (a run of letters and digits, as the index's tokenizer makes *)
(* them) returns the entry, and the tag listing of every normalized token  *)
(* of the saved tag list holds the entry; saved into an empty database,    *)
(* the entry is all that such a search and such a listing return.          *)
C13_SavedEntryIsFound ==
    \A form \in Forms, e \in Objects :
        LET r == _create_or_edit(DB, e, form)
        IN  (r.status = "redirect" /\ r.e.published)
            => /\ \A w \in tokens(form.title) \cup tokens(form.content) :
                     /\ r.e.id \in search(r.db, w)
                     /\ Len(entry) = 0 => search(r.db, w) = {r.e.id}
               /\ \A k \in 1..Len(r.e.tags) :
                     /\ r.e.id \in blogs_by_tag(r.db, tag_token(r.e.tags[k]))
                     /\ Len(entry) = 0 =>
                           blogs_by_tag(r.db, tag_token(r.e.tags[k])) = {r.e.id}

\* A published entry was just saved with a tag that differs from its token,
\* and the search of its content and the listing of the token return it.
C13_Witness ==
    /\ status = "redirect"
    /\ \E i \in Ids :
          /\ entry[i].published
          /\ saved_tags[i] = << <<"T">> >>
          /\ i \in search(DB, entry[i].content)
          /\ i \in blogs_by_tag(DB, <<"t">>)

----------------------------------------------------------------------------
(* C14: the tag listing does not depend on case or punctuation: two tag    *)
(* names that normalize to the same token list the same entries, namely    *)
(* every entry with a BlogEntryTag row of that token. blogs_by_tag         *)
(* compares the stored token with the name as the path gives it.           *)
C14_TagLookupNormalizes ==
    \A t1 \in RouteTags, t2 \in RouteTags :
        tag_token(t1) = tag_token(t2)
            => /\ blogs_by_tag(DB, t1) = blogs_by_tag(DB, t2)
               /\ blogs_by_tag(DB, t1) =
                     {blogentrytag[k].entry_id :
                         k \in {x \in 1..Len(blogentrytag) :
                                 blogentrytag[x].name = tag_token(t1)}}

----------------------------------------------------------------------------
(* C15: the BlogEntryTag rows of every entry are exactly the normalized    *)
(* tokens of the tag list of its latest save, one row per token.           *)
(* Entry.save inserts a row per tag on every save and deletes none.        *)
C15_TagRowsAreLatestTokens ==
    \A i \in Ids :
        /\ {blogentrytag[k].name : k \in TagRowsOf(i)} = TokensOf(i)
        /\ Cardinality(TagRowsOf(i)) = Cardinality(TokensOf(i))

----------------------------------------------------------------------------
(* C16: a save is refused with the uniqueness error only for its slug: no  *)
(* POST is answered "this title is already in use" for its tag list.       *)
(* Tag.create raises IntegrityError for a token that has a Tag row which   *)
(* the raw tag did not select, and for a token the list repeats.           *)
C16_OnlySlugRefusesSave ==
    flashed = FlashInUse => raised = SlugError

----------------------------------------------------------------------------
(* C20: no Tag row and no BlogEntryTag row holds the empty token.          *)
(* An empty tags field splits to the list of one empty string, which is    *)
(* stored as a tag.                                                        *)
C20_NoEmptyToken ==
    /\ \A k \in 1..Len(tag) : tag[k].tag # <<>>
    /\ \A k \in 1..Len(blogentrytag) : blogentrytag[k].name # <<>>

----------------------------------------------------------------------------
(* C17: the slug of every entry at its first save is the result of the     *)
(* slug rule, computed here from its wording: every maximal run of         *)
(* non-word characters becomes one hyphen, the text is lower-cased, and    *)
(* the hyphens at both ends are dropped ("Hello, World!" gives             *)
(* "hello-world"); so the slug holds only hyphens and word characters that *)
(* are not upper-case.                                                     *)
CasePairs == {<<"A", "a">>, <<"T", "t">>, <<"H", "h">>, <<"W", "w">>}

WordChars == LowerCase \cup UpperCase \cup Digit \cup {"_"}

\* Every maximal run of characters outside WordChars replaced by one hyphen:
\* the first character of a run becomes the hyphen, the others go.
RunsToHyphen(s) ==
    LET marked == [i \in 1..Len(s) |->
                      IF s[i] \in WordChars THEN s[i]
                      ELSE IF i = 1 \/ s[i - 1] \in WordChars THEN "-"
                      ELSE ""]
        Kept(c) == c # ""
    IN  SelectSeq(marked, Kept)

LowerCased(s) ==
    [i \in 1..Len(s) |->
        IF \E p \in CasePairs : p[1] = s[i]
        THEN (CHOOSE p \in CasePairs : p[1] = s[i])[2]
        ELSE s[i]]

WithoutEndHyphens(s) ==
    LET inner == {i \in 1..Len(s) : s[i] # "-"}
    IN  IF inner = {} THEN <<>>
        ELSE SubSeq(s, CHOOSE i \in inner : \A j \in inner : i <= j,
                       CHOOSE i \in inner : \A j \in inner : i >= j)

RefSlug(title) == WithoutEndHyphens(LowerCased(RunsToHyphen(title)))

C17_SlugIsRuleResult ==
    \A i \in Ids :
        /\ entry[i].slug = RefSlug(entry[i].title)
        /\ Range(entry[i].slug) \subseteq (WordChars \ UpperCase) \cup {"-"}

\* The entry titled "Hello, World!" is stored under "hello-world".
C17_Witness ==
    \E i \in Ids :
        /\ entry[i].title = HelloWorld
        /\ entry[i].slug = <<"h", "e", "l", "l", "o", "-", "w", "o", "r", "l", "d">>

----------------------------------------------------------------------------
(* C18, as claimed: a title that is already a valid slug, that is, holds   *)
(* only word characters and hyphens, is stored as its own slug.            *)
C18_ValidSlugUnchanged ==
    \A i \in Ids :
        Range(entry[i].title) \subseteq WordChars \cup {"-"}
            => entry[i].slug = entry[i].title

(* C18, amended: a title that holds only hyphens and word characters that  *)
(* are not upper-case, with no hyphen at either end and no two hyphens in  *)
(* a row, is stored as its own slug; and every slug the generator gave is  *)
(* left as it is by the generator.                                         *)
StrictSlug(s) ==
    /\ Range(s) \subseteq (WordChars \ UpperCase) \cup {"-"}
    /\ s # <<>> => (s[1] # "-" /\ s[Len(s)] # "-")
    /\ \A i \in 1..(Len(s) - 1) : ~(s[i] = "-" /\ s[i + 1] = "-")

C18_StrictSlugUnchanged ==
    \A i \in Ids :
        /\ StrictSlug(entry[i].title) => entry[i].slug = entry[i].title
        /\ slugify(entry[i].slug) = entry[i].slug

\* An entry whose title is a slug with a hyphen inside is stored under it.
C18_Witness ==
    \E i \in Ids :
        /\ entry[i].title = <<"a", "-", "1">>
        /\ entry[i].slug = <<"a", "-", "1">>

----------------------------------------------------------------------------
(* C19: when the two callers' requests have both been answered, the four   *)
(* tables are as some serial order of the requests leaves them, starting   *)
(* from the tables before the requests, and each caller got the answer it  *)
(* gets in that order (a request that failed on the busy timeout wrote     *)
(* nothing and takes no part in the order); no slug is stored twice and    *)
(* every entry has exactly one document in the search index.               *)
AllDone == \A c \in Callers : callers[c].pc = "done"

Completed == {c \in Callers : callers[c].status # "500"}

Orders(S) ==
    {o \in [1..Cardinality(S) -> S] : \A i, j \in 1..Cardinality(S) : o[i] = o[j] => i = j}

\* The request of caller c handled alone on db, as the views handle it.
Handle(db, c) ==
    IF callers[c].kind = "create"
    THEN _create_or_edit(db, new_entry, callers[c].form)
    ELSE IF by_slug(db, callers[c].slug) = {}
    THEN [db |-> db, e |-> new_entry, exc |-> NoError, flash |-> "", status |-> "404"]
    ELSE _create_or_edit(db, load_entry(db, CHOOSE x \in by_slug(db, callers[c].slug) : TRUE),
                         callers[c].form)

RECURSIVE SerialRun(_, _)
SerialRun(db, order) ==
    IF order = <<>> THEN [db |-> db, answers |-> <<>>]
    ELSE LET r == Handle(db, Head(order))
             rest == SerialRun(r.db, Tail(order))
         IN  [db |-> rest.db,
              answers |-> <<[flash |-> r.flash, status |-> r.status]>> \o rest.answers]

C19_SavesSerializable ==
    AllDone =>
        /\ \E o \in Orders(Completed) :
              LET s == SerialRun(start, o)
              IN  /\ s.db = DB
                  /\ \A k \in 1..Len(o) :
                        /\ s.answers[k].flash = callers[o[k]].flash
                        /\ s.answers[k].status = callers[o[k]].status
        /\ \A i, j \in Ids : entry[i].slug = entry[j].slug => i = j
        /\ \A i \in Ids : Cardinality(DocsOf(i)) = 1

\* Both requests were saved, one of them began its transaction after the
\* other's commit though it had arrived before it, and both counted the same
\* tag.
C19_Witness ==
    /\ AllDone
    /\ \A c \in Callers : callers[c].status = "redirect"
    /\ \E c \in Callers : callers[c].overlapped /\ callers[c].kind = "edit"
    /\ \E i \in 1..Len(start.tag) : tag[i].count = start.tag[i].count + 2

====
